---- MODULE Spec2Model ----
(***************************************************************************)
(* A state-machine model of the AIvidence fact-checking pipeline:          *)
(*   - WebSearchClient.search (thread-plus-join timeout, bounded retry),   *)
(*     driven by ClaimVerifier.verify_claim and the per-claim loop of      *)
(*     FactCheckEngine.analyze_content;                                    *)
(*   - ContentScraper.load_content (requests, then Selenium fallback);     *)
(*   - ClaimExtractor.extract_claims and the engine's sort and cut;        *)
(*   - FactCheckEngine._generate_overall_analysis (weighted score);        *)
(*   - ClaimVerifier.verify_claim: the result built from the scoring       *)
(*     reply, and the query loop;                                          *)
(*   - the stages of FactCheckEngine.analyze_content.                      *)
(* Each subsystem has its own specification over its own variables; the    *)
(* other variables stay at their initial values.                           *)
(***************************************************************************)
EXTENDS Integers, Sequences, FiniteSets, TLC

VARIABLES
    \* ---- WebSearchClient.search and its callers
    s_pc,              \* position of the calling (main) thread
    claim_no,          \* index of the claim analyze_content is verifying
    queries_left,      \* queries of the current claim not yet searched
    retry_count,       \* search(): retry_count
    search_completed,  \* search(): closure cell shared by all attempts of a call
    search_exception,  \* search(): closure cell, "None" or the exception kind
    results,           \* search(): closure cell, the raw result list
    search_results,    \* search(): the accumulated SearchResult list
    unit,              \* position of the current attempt's request unit
    stale,             \* abandoned units of earlier attempts of this call
    cur,               \* number of the current attempt of the current call
    orphans,           \* units of earlier search calls that are still alive
    ret,               \* value the last search() call returned
    raised,            \* an exception escaped search()
    exc,               \* exception in flight inside the try block of search()
    \* history (ghost) variables of the search model
    slept,             \* retry delays that elapsed in the current call
    timeouts,          \* attempts of the current call that took the timeout branch
    errors,            \* attempts of the current call that ended in the except block
    foreign_write,     \* a unit of an earlier attempt wrote a cell since the reset
    unjoined,          \* units started whose join has not returned yet
    \* ---- ContentScraper.load_content
    l_pc,              \* position inside load_content
    source_type,       \* load_content(): source_type (argument, then detected)
    is_html_file,      \* what _is_html_file(source) answers
    is_valid_url,      \* what _is_valid_url(source) answers
    content,           \* load_content(): content
    l_ret,             \* the text load_content returned
    l_error,           \* the exception load_content raised, "None" if none
    driver,            \* the Chrome driver of _load_with_selenium
    \* history (ghost) variables of the load model
    a_calls,           \* calls of _load_with_requests (strategy A)
    b_calls,           \* calls of _load_with_selenium (strategy B)
    file_reads,        \* calls of _load_from_html_file
    a_result,          \* what strategy A returned
    b_result,          \* what strategy B returned
    \* ---- ClaimExtractor.extract_claims and the engine's sort and cut
    e_pc,              \* position inside extract_claims / analyze_content
    max_claims,        \* analyze_content(): max_claims
    n_chunks,          \* number of chunks _split_content returned
    chunk_i,           \* extract_claims(): i, the index of the chunk at hand
    all_claims,        \* extract_claims(): all_claims
    unique_claims,     \* extract_claims(): unique_claims, the returned list
    claims,            \* analyze_content(): claims after sorted(...)[:max_claims]
    \* history (ghost) variables of the extraction model
    candidates,        \* every claim built from the chunks processed, uncut
    oracle_calls,      \* chunks sent to the oracle
    chunk_reply,       \* the oracle's reply for the chunk sent last
    \* ---- FactCheckEngine: verification loop and _generate_overall_analysis
    g_pc,              \* position inside analyze_content, steps 4 and 5
    g_claims,          \* analyze_content(): claims
    verification_results,  \* analyze_content(): verification_results
    overall_score,     \* the report's overall_score, in tenths
    \* ---- ClaimVerifier.verify_claim: sources and _analyze_search_results
    v_pc,              \* position inside verify_claim
    v_queries_left,    \* search queries not yet run
    search_sources,    \* verify_claim(): search_sources
    v_domain_ok,       \* the domain analysis has joinable expertise and pattern lists
    v_reply,           \* the oracle's scoring reply
    v_result,          \* the FactCheckResult verify_claim returned
    \* ---- FactCheckEngine.analyze_content: the stages of one run
    p_pc,              \* position inside analyze_content
    p_log,             \* stage events so far, in order
    domain_analysis,   \* analyze_content(): domain_analysis (how its fields are typed)
    p_n,               \* number of claims selected for verification
    p_verified,        \* claims verified so far
    p_error,           \* the exception analyze_content raised, "None" if none
    \* ---- ClaimVerifier.verify_claim: the queries and the search loop
    q_pc,              \* position inside verify_claim
    q_reply,           \* the lines of the oracle's reply to the query request
    search_queries,    \* verify_claim(): search_queries, as line numbers of the reply
    q_next,            \* position in search_queries of the query searched next
    q_calls            \* history: the calls of search_client.search, in order

searchVars == <<s_pc, claim_no, queries_left, retry_count, search_completed,
                search_exception, results, search_results, unit, stale, cur,
                orphans, ret, raised, exc, slept, timeouts, errors,
                foreign_write, unjoined>>

loadVars == <<l_pc, source_type, is_html_file, is_valid_url, content, l_ret,
              l_error, driver, a_calls, b_calls, file_reads, a_result, b_result>>

extractVars == <<e_pc, max_claims, n_chunks, chunk_i, all_claims, unique_claims,
                 claims, candidates, oracle_calls, chunk_reply>>

scoreVars == <<g_pc, g_claims, verification_results, overall_score>>

verifyVars == <<v_pc, v_queries_left, search_sources, v_domain_ok, v_reply, v_result>>

pipeVars == <<p_pc, p_log, domain_analysis, p_n, p_verified, p_error>>

queryVars == <<q_pc, q_reply, search_queries, q_next, q_calls>>

vars == <<searchVars, loadVars, extractVars, scoreVars, verifyVars, pipeVars, queryVars>>

OthersUnchangedBySearch ==
    UNCHANGED <<loadVars, extractVars, scoreVars, verifyVars, pipeVars, queryVars>>

OthersUnchangedByLoad ==
    UNCHANGED <<searchVars, extractVars, scoreVars, verifyVars, pipeVars, queryVars>>

OthersUnchangedByExtract ==
    UNCHANGED <<searchVars, loadVars, scoreVars, verifyVars, pipeVars, queryVars>>

OthersUnchangedByScore ==
    UNCHANGED <<searchVars, loadVars, extractVars, verifyVars, pipeVars, queryVars>>

OthersUnchangedByVerify ==
    UNCHANGED <<searchVars, loadVars, extractVars, scoreVars, pipeVars, queryVars>>

OthersUnchangedByPipeline ==
    UNCHANGED <<searchVars, loadVars, extractVars, scoreVars, verifyVars, queryVars>>

OthersUnchangedByQueries ==
    UNCHANGED <<searchVars, loadVars, extractVars, scoreVars, verifyVars, pipeVars>>

-----------------------------------------------------------------------------
(* Bounds of the model and constants of the program.                       *)

\* config.py: BRAVE_SEARCH_MAX_RETRIES, the default of WebSearchClient.max_retries
BRAVE_SEARCH_MAX_RETRIES == 3

\* claims analyze_content verifies in one run (bound)
NumClaims == 2

\* search queries the oracle proposes for one claim (bound)
MaxQueries == 2

\* chunks _split_content cuts the content into (bound)
NumChunks == 2

\* items in the JSON array of one oracle reply (bound)
MaxReplyLen == 2

\* largest max_claims analyze_content is called with (bound)
MaxClaimsBound == 3

\* claims verified and aggregated in one report (bound)
MaxScored == 2

\* units abandoned by earlier search calls that are still alive when the
\* next call is entered (bound)
MaxOrphans == 2

max_retries == BRAVE_SEARCH_MAX_RETRIES

-----------------------------------------------------------------------------
(* SearchResult and the raw items of a Brave response.                     *)

Absent == "<absent>"

\* a raw item of data['web']['results']: a dict, or something without .get
RawA == [kind |-> "dict", title |-> "A", url |-> "https://www.a.org/p"]
RawB == [kind |-> "dict", title |-> Absent, url |-> "http://b.io/q"]
RawBad == [kind |-> "str", title |-> Absent, url |-> Absent]

\* dict.get(key, ''): the default for a missing key
Get(item, field, default) == IF item[field] = Absent THEN default ELSE item[field]

\* WebSearchClient._extract_domain on the urls of the model
\* (regex https?://(?:www\.)?([^/]+), the url itself when nothing matches)
ExtractDomain(url) ==
    CASE url = "https://www.a.org/p" -> "a.org"
      [] url = "http://b.io/q" -> "b.io"
      [] OTHER -> url

\* SearchResult(title=..., body=..., url=..., source=...)
ToSearchResult(item) ==
    [title  |-> Get(item, "title", ""),
     url    |-> Get(item, "url", ""),
     source |-> ExtractDomain(Get(item, "url", ""))]

\* the result lists a 200 response with web.results may carry
Payloads == { <<>>, <<RawA, RawB>>, <<RawA, RawBad>> }

\* length of the longest prefix of rs that converts
RECURSIVE ConvertiblePrefix(_)
ConvertiblePrefix(rs) ==
    IF rs = <<>> \/ Head(rs).kind # "dict" THEN 0
    ELSE 1 + ConvertiblePrefix(Tail(rs))

\* the for loop of search(): the items appended before a conversion fails
Converted(rs) == [i \in 1..ConvertiblePrefix(rs) |-> ToSearchResult(rs[i])]

ConversionFails(rs) == ConvertiblePrefix(rs) < Len(rs)

-----------------------------------------------------------------------------
(* The request units: perform_search, each run in its own thread.  `unit`  *)
(* is the unit of the current attempt; `stale` counts, by position, the    *)
(* units of earlier attempts of the same call, which were abandoned on     *)
(* timeout and still hold the same three closure cells.                    *)

Alive(st) == st \in {"req", "got", "sleep"}

NoStale == [req |-> 0, got |-> 0, sleep |-> 0]

StaleAlive == stale.req + stale.got + stale.sleep

AliveUnits == (IF Alive(unit) THEN 1 ELSE 0) + StaleAlive + orphans

Who == {"own", "stale"}

\* some unit of kind w is at position st
At(w, st) == IF w = "own" THEN unit = st ELSE stale[st] > 0

\* one unit of kind w moves from position st to position to
Move(w, st, to) ==
    IF w = "own"
      THEN /\ unit' = to
           /\ UNCHANGED stale
      ELSE /\ stale' = IF to = "dead"
                         THEN [stale EXCEPT ![st] = @ - 1]
                         ELSE [stale EXCEPT ![st] = @ - 1, ![to] = @ + 1]
           /\ UNCHANGED unit

\* lines 98-103: status 200 and data['web']['results'] present: results = ...
UnitGotResults(w) ==
    /\ OthersUnchangedBySearch
    /\ At(w, "req")
    /\ \E p \in Payloads : results' = p
    /\ Move(w, "req", "got")
    /\ foreign_write' = (foreign_write \/ w = "stale")
    /\ UNCHANGED <<s_pc, claim_no, queries_left, retry_count, search_completed,
                   search_exception, search_results, cur, orphans, ret, raised,
                   exc, slept, timeouts, errors, unjoined>>

\* lines 104, 110: search_completed = True, then time.sleep(1.5)
UnitSetsCompleted(w) ==
    /\ OthersUnchangedBySearch
    /\ At(w, "got")
    /\ search_completed' = TRUE
    /\ Move(w, "got", "sleep")
    /\ foreign_write' = (foreign_write \/ w = "stale")
    /\ UNCHANGED <<s_pc, claim_no, queries_left, retry_count, results,
                   search_exception, search_results, cur, orphans, ret, raised,
                   exc, slept, timeouts, errors, unjoined>>

\* lines 105-110: non-200 status, or a payload without web.results:
\* search_exception = Exception(...), then time.sleep(1.5)
UnitServiceError(w) ==
    /\ OthersUnchangedBySearch
    /\ At(w, "req")
    /\ search_exception' = "Exception"
    /\ Move(w, "req", "sleep")
    /\ foreign_write' = (foreign_write \/ w = "stale")
    /\ UNCHANGED <<s_pc, claim_no, queries_left, retry_count, search_completed,
                   results, search_results, cur, orphans, ret, raised,
                   exc, slept, timeouts, errors, unjoined>>

\* lines 112-115: requests.get or response.json() raises:
\* search_exception = e, and the unit ends
UnitTransportError(w) ==
    /\ OthersUnchangedBySearch
    /\ At(w, "req")
    /\ search_exception' = "RequestException"
    /\ Move(w, "req", "dead")
    /\ foreign_write' = (foreign_write \/ w = "stale")
    /\ UNCHANGED <<s_pc, claim_no, queries_left, retry_count, search_completed,
                   results, search_results, cur, orphans, ret, raised,
                   exc, slept, timeouts, errors, unjoined>>

\* line 110: time.sleep(1.5) is over, perform_search returns, the thread ends
UnitEnds(w) ==
    /\ OthersUnchangedBySearch
    /\ At(w, "sleep")
    /\ Move(w, "sleep", "dead")
    /\ UNCHANGED <<s_pc, claim_no, queries_left, retry_count, search_completed,
                   search_exception, results, search_results, cur, orphans, ret,
                   raised, exc, slept, timeouts, errors, foreign_write, unjoined>>

\* a unit of an earlier search() call ends; the cells it writes belong to that
\* call's frame, which nothing reads any more
OrphanEnds ==
    /\ OthersUnchangedBySearch
    /\ orphans > 0
    /\ orphans' = orphans - 1
    /\ UNCHANGED <<s_pc, claim_no, queries_left, retry_count, search_completed,
                   search_exception, results, search_results, unit, stale, cur,
                   ret, raised, exc, slept, timeouts, errors, foreign_write,
                   unjoined>>

-----------------------------------------------------------------------------
(* The calling thread inside WebSearchClient.search.                       *)

\* mutant: the attempt is evaluated without joining the thread
AfterStart_NoJoin == "chk_completed"

\* line 123: after start() the caller waits in search_thread.join(timeout)
AfterStart == "join"

\* mutant: the timeout branch stops one retry early
TimeoutRetryAllowed_Strict(rc) == rc < max_retries

\* line 131: the timeout branch retries while retry_count <= max_retries
TimeoutRetryAllowed(rc) == rc <= max_retries

\* line 165: the except block retries while retry_count <= max_retries
ExceptRetryAllowed(rc) == rc <= max_retries

\* line 134: time.sleep(self.retry_delay) before `continue`
TimeoutDelay(n) == n + 1

\* mutant: the except block retries at once
ExceptDelay_None(n) == n

\* line 168: time.sleep(self.retry_delay) in the except block
ExceptDelay(n) == n + 1

\* line 139: `return []` when the timeout branch has no retry left
TimeoutGiveUp(sr) == <<>>

\* mutant: the except block returns what was accumulated
ExceptGiveUp_Partial(sr) == sr

\* line 172: `return []` when the except block has no retry left
ExceptGiveUp(sr) == <<>>

\* line 160: `except Exception` catches every exception the try block raises
Caught(e) == e \in {"Exception", "RequestException", "AttributeError"}

\* lines 66-120: the loop test, the reset of the three cells, thread start;
\* line 174 when the loop test fails
StartAttempt ==
    /\ OthersUnchangedBySearch
    /\ s_pc = "loop"
    /\ IF retry_count <= max_retries
         THEN /\ search_completed' = FALSE
              /\ search_exception' = "None"
              /\ results' = <<>>
              /\ foreign_write' = FALSE
              /\ cur' = cur + 1
              /\ stale' = IF Alive(unit) THEN [stale EXCEPT ![unit] = @ + 1]
                                          ELSE stale
              /\ unit' = "req"
              /\ unjoined' = unjoined + 1
              /\ s_pc' = AfterStart
              /\ UNCHANGED ret
         ELSE /\ s_pc' = "returned"
              /\ ret' = search_results
              /\ UNCHANGED <<search_completed, search_exception, results,
                             foreign_write, cur, unit, stale, unjoined>>
    /\ UNCHANGED <<claim_no, queries_left, retry_count, search_results, orphans,
                   raised, exc, slept, timeouts, errors>>

\* line 123: join returns when the unit has ended or when the timeout expires
JoinReturns ==
    /\ OthersUnchangedBySearch
    /\ s_pc = "join"
    /\ s_pc' = "chk_completed"
    /\ unjoined' = unjoined - 1
    /\ UNCHANGED <<claim_no, queries_left, retry_count, search_completed,
                   search_exception, results, search_results, unit, stale, cur,
                   orphans, ret, raised, exc, slept, timeouts, errors, foreign_write>>

\* line 126: if not search_completed
CheckCompleted ==
    /\ OthersUnchangedBySearch
    /\ s_pc = "chk_completed"
    /\ s_pc' = IF search_completed THEN "process" ELSE "chk_alive"
    /\ UNCHANGED <<claim_no, queries_left, retry_count, search_completed,
                   search_exception, results, search_results, unit, stale, cur,
                   orphans, ret, raised, exc, slept, timeouts, errors, foreign_write,
                   unjoined>>

\* lines 127-139: if search_thread.is_alive(): the timeout branch
CheckAlive ==
    /\ OthersUnchangedBySearch
    /\ s_pc = "chk_alive"
    /\ IF Alive(unit)
         THEN /\ timeouts' = timeouts + 1
              /\ retry_count' = retry_count + 1
              /\ IF TimeoutRetryAllowed(retry_count + 1)
                   THEN /\ slept' = TimeoutDelay(slept)
                        /\ s_pc' = "loop"
                        /\ UNCHANGED ret
                   ELSE /\ s_pc' = "returned"
                        /\ ret' = TimeoutGiveUp(search_results)
                        /\ UNCHANGED slept
         ELSE /\ s_pc' = "chk_exc"
              /\ UNCHANGED <<timeouts, retry_count, slept, ret>>
    /\ UNCHANGED <<claim_no, queries_left, search_completed, search_exception,
                   results, search_results, unit, stale, cur, orphans, raised, exc,
                   errors, foreign_write, unjoined>>

\* lines 140-142: elif search_exception: raise search_exception
CheckException ==
    /\ OthersUnchangedBySearch
    /\ s_pc = "chk_exc"
    /\ IF search_exception # "None"
         THEN /\ exc' = search_exception
              /\ s_pc' = "except"
         ELSE /\ s_pc' = "process"
              /\ UNCHANGED exc
    /\ UNCHANGED <<claim_no, queries_left, retry_count, search_completed,
                   search_exception, results, search_results, unit, stale, cur,
                   orphans, ret, raised, slept, timeouts, errors, foreign_write,
                   unjoined>>

\* lines 144-158: convert the items of `results`, appending to search_results;
\* an item without .get raises AttributeError, otherwise break and line 174
ProcessResults ==
    /\ OthersUnchangedBySearch
    /\ s_pc = "process"
    /\ search_results' = search_results \o Converted(results)
    /\ IF ConversionFails(results)
         THEN /\ exc' = "AttributeError"
              /\ s_pc' = "except"
              /\ UNCHANGED ret
         ELSE /\ s_pc' = "returned"
              /\ ret' = search_results'
              /\ UNCHANGED exc
    /\ UNCHANGED <<claim_no, queries_left, retry_count, search_completed,
                   search_exception, results, unit, stale, cur, orphans, raised,
                   slept, timeouts, errors, foreign_write, unjoined>>

\* lines 160-172: the except block
ExceptBlock ==
    /\ OthersUnchangedBySearch
    /\ s_pc = "except"
    /\ IF Caught(exc)
         THEN /\ retry_count' = retry_count + 1
              /\ errors' = errors + 1
              /\ exc' = "None"
              /\ UNCHANGED raised
              /\ IF ExceptRetryAllowed(retry_count + 1)
                   THEN /\ slept' = ExceptDelay(slept)
                        /\ s_pc' = "loop"
                        /\ UNCHANGED ret
                   ELSE /\ s_pc' = "returned"
                        /\ ret' = ExceptGiveUp(search_results)
                        /\ UNCHANGED slept
         ELSE /\ raised' = TRUE
              /\ s_pc' = "raised"
              /\ UNCHANGED <<retry_count, errors, exc, slept, ret>>
    /\ UNCHANGED <<claim_no, queries_left, search_completed, search_exception,
                   results, search_results, unit, stale, cur, orphans, timeouts,
                   foreign_write, unjoined>>

-----------------------------------------------------------------------------
(* The callers: ClaimVerifier.verify_claim and the claim loop of           *)
(* FactCheckEngine.analyze_content.                                        *)

\* claim_verifier.py line 49: the oracle's reply gives the claim's queries
FormulateQueries ==
    /\ OthersUnchangedBySearch
    /\ s_pc = "verify"
    /\ \E n \in 0..MaxQueries : queries_left' = n
    /\ s_pc' = "queries"
    /\ UNCHANGED <<claim_no, retry_count, search_completed, search_exception,
                   results, search_results, unit, stale, cur, orphans, ret, raised,
                   exc, slept, timeouts, errors, foreign_write, unjoined>>

\* claim_verifier.py line 60 and web_search_client.py lines 63-64:
\* search(query) is entered with a fresh frame; of the units earlier calls
\* abandoned at most MaxOrphans are still alive by then
CallSearch ==
    /\ OthersUnchangedBySearch
    /\ s_pc = "queries"
    /\ queries_left > 0
    /\ orphans <= MaxOrphans
    /\ s_pc' = "loop"
    /\ UNCHANGED <<claim_no, queries_left, retry_count, search_completed,
                   search_exception, results, search_results, unit, stale, cur,
                   orphans, ret, raised, exc, slept, timeouts, errors, foreign_write,
                   unjoined>>

\* claim_verifier.py lines 60-71: search() has returned; its frame is dropped,
\* the units it abandoned live on
SearchReturned ==
    /\ OthersUnchangedBySearch
    /\ s_pc = "returned"
    /\ queries_left' = queries_left - 1
    /\ orphans' = AliveUnits
    /\ unit' = "none"
    /\ stale' = NoStale
    /\ cur' = 0
    /\ retry_count' = 0
    /\ search_completed' = FALSE
    /\ search_exception' = "None"
    /\ results' = <<>>
    /\ search_results' = <<>>
    /\ ret' = <<>>
    /\ slept' = 0
    /\ timeouts' = 0
    /\ errors' = 0
    /\ foreign_write' = FALSE
    /\ s_pc' = "queries"
    /\ UNCHANGED <<claim_no, raised, exc, unjoined>>

\* claim_verifier.py lines 78-86 and fact_check_engine.py lines 101-106:
\* the claim's result is produced and the loop moves to the next claim
ClaimVerified ==
    /\ OthersUnchangedBySearch
    /\ s_pc = "queries"
    /\ queries_left = 0
    /\ claim_no' = claim_no + 1
    /\ s_pc' = IF claim_no + 1 > NumClaims THEN "done" ELSE "verify"
    /\ UNCHANGED <<queries_left, retry_count, search_completed,
                   search_exception, results, search_results, unit, stale, cur,
                   orphans, ret, raised, exc, slept, timeouts, errors, foreign_write,
                   unjoined>>

SearchInit ==
    /\ s_pc = "verify"
    /\ claim_no = 1
    /\ queries_left = 0
    /\ retry_count = 0
    /\ search_completed = FALSE
    /\ search_exception = "None"
    /\ results = <<>>
    /\ search_results = <<>>
    /\ unit = "none"
    /\ stale = NoStale
    /\ cur = 0
    /\ orphans = 0
    /\ ret = <<>>
    /\ raised = FALSE
    /\ exc = "None"
    /\ slept = 0
    /\ timeouts = 0
    /\ errors = 0
    /\ foreign_write = FALSE
    /\ unjoined = 0

\* no verification is under way
SearchIdle ==
    /\ s_pc = "idle"
    /\ claim_no = 0
    /\ queries_left = 0
    /\ retry_count = 0
    /\ search_completed = FALSE
    /\ search_exception = "None"
    /\ results = <<>>
    /\ search_results = <<>>
    /\ unit = "none"
    /\ stale = NoStale
    /\ cur = 0
    /\ orphans = 0
    /\ ret = <<>>
    /\ raised = FALSE
    /\ exc = "None"
    /\ slept = 0
    /\ timeouts = 0
    /\ errors = 0
    /\ foreign_write = FALSE
    /\ unjoined = 0

SearchNext ==
    \/ FormulateQueries
    \/ CallSearch
    \/ StartAttempt
    \/ JoinReturns
    \/ CheckCompleted
    \/ CheckAlive
    \/ CheckException
    \/ ProcessResults
    \/ ExceptBlock
    \/ SearchReturned
    \/ ClaimVerified
    \/ OrphanEnds
    \/ \E w \in Who : UnitGotResults(w)
    \/ \E w \in Who : UnitSetsCompleted(w)
    \/ \E w \in Who : UnitServiceError(w)
    \/ \E w \in Who : UnitTransportError(w)
    \/ \E w \in Who : UnitEnds(w)


-----------------------------------------------------------------------------
(* ContentScraper: text is a sequence of characters.                       *)

UpperLetters == <<"A", "B", "C", "D", "E", "F", "G", "H", "I", "J", "K", "L", "M", "N", "O", "P", "Q", "R", "S", "T", "U", "V", "W", "X", "Y", "Z">>
LowerLetters == <<"a", "b", "c", "d", "e", "f", "g", "h", "i", "j", "k", "l", "m", "n", "o", "p", "q", "r", "s", "t", "u", "v", "w", "x", "y", "z">>

\* str.lower() on one ASCII character
LowerChar(c) ==
    IF \E i \in 1..26 : UpperLetters[i] = c
      THEN LowerLetters[CHOOSE i \in 1..26 : UpperLetters[i] = c]
      ELSE c

\* str.lower()
Lower(t) == [i \in 1..Len(t) |-> LowerChar(t[i])]

\* `sub in t` on strings
IsSubstring(sub, t) ==
    \E i \in 1..(Len(t) - Len(sub) + 1) : SubSeq(t, i, i + Len(sub) - 1) = sub

\* lines 142-155: denial_indicators
denial_indicators == {
      <<"a", "c", "c", "e", "s", "s", " ", "d", "e", "n", "i", "e", "d">>,
      <<"a", "c", "c", "e", "s", "s", " ", "t", "o", " ", "t", "h", "i", "s", " ", "p", "a", "g", "e", " ", "h", "a", "s", " ", "b", "e", "e", "n", " ", "d", "e", "n", "i", "e", "d">>,
      <<"h", "a", "s", " ", "b", "e", "e", "n", " ", "b", "l", "o", "c", "k", "e", "d">>,
      <<"d", "e", "t", "e", "c", "t", "e", "d", " ", "u", "n", "u", "s", "u", "a", "l", " ", "a", "c", "t", "i", "v", "i", "t", "y">>,
      <<"p", "l", "e", "a", "s", "e", " ", "e", "n", "a", "b", "l", "e", " ", "j", "a", "v", "a", "s", "c", "r", "i", "p", "t">>,
      <<"b", "r", "o", "w", "s", "e", "r", " ", "a", "p", "p", "e", "a", "r", "s", " ", "t", "o", " ", "h", "a", "v", "e", " ", "j", "a", "v", "a", "s", "c", "r", "i", "p", "t", " ", "d", "i", "s", "a", "b", "l", "e", "d">>,
      <<"c", "a", "p", "t", "c", "h", "a">>,
      <<"c", "l", "o", "u", "d", "f", "l", "a", "r", "e">>,
      <<"d", "d", "o", "s", " ", "p", "r", "o", "t", "e", "c", "t", "i", "o", "n">>,
      <<"h", "u", "m", "a", "n", " ", "v", "e", "r", "i", "f", "i", "c", "a", "t", "i", "o", "n">>,
      <<"b", "o", "t", " ", "p", "r", "o", "t", "e", "c", "t", "i", "o", "n">>,
      <<"s", "e", "c", "u", "r", "i", "t", "y", " ", "c", "h", "e", "c", "k">> }

\* Python None where a str is expected
NoneValue == <<"<None>">>

\* `not content`: None or the empty string
Falsy(c) == c = NoneValue \/ c = <<>>

\* the text matches a block signature, whatever its case
MatchesBlockSignature(t) ==
    \E ind \in denial_indicators : IsSubstring(ind, Lower(t))

\* lines 134-162: _check_for_access_denial
check_for_access_denial(c) ==
    IF Falsy(c) THEN FALSE
    ELSE \E indicator \in denial_indicators : IsSubstring(indicator, Lower(c))

\* documents a server or a browser may deliver
BodyEmpty == <<>>
BodyNews == <<"<", "p", ">", "N", "e", "w", "s", "<", "/", "p", ">">>
BodyCaptcha == <<"r", "e", "C", "A", "P", "T", "C", "H", "A">>
BodyDenied == <<"A", "c", "c", "e", "s", "s", " ", "D", "e", "n", "i", "e", "d">>
BodyNearMiss == <<"C", "l", "o", "u", "d", " ", "f", "l", "a", "r", "e">>

Bodies == {BodyEmpty, BodyNews, BodyCaptcha, BodyDenied, BodyNearMiss}

\* the characters of t outside <...> markup
RECURSIVE StripTags(_, _)
StripTags(t, inTag) ==
    IF t = <<>> THEN <<>>
    ELSE IF Head(t) = "<" THEN StripTags(Tail(t), TRUE)
    ELSE IF Head(t) = ">" /\ inTag THEN StripTags(Tail(t), FALSE)
    ELSE IF inTag THEN StripTags(Tail(t), TRUE)
    ELSE <<Head(t)>> \o StripTags(Tail(t), FALSE)

\* lines 164-207: _extract_main_content, on documents without script, style,
\* nav, header, footer or container elements: the text of the whole document
extract_main_content(html_content) ==
    IF Falsy(html_content) THEN <<>> ELSE StripTags(html_content, FALSE)

\* source_type.lower() on the values of the model
LowerType(t) ==
    CASE t = "URL" -> "url"
      [] t = "File" -> "file"
      [] OTHER -> t

SourceTypes == {"None", "url", "file", "URL", "File", "pdf"}

\* lines 45-75: what _load_with_requests returns: None on a RequestException
\* (transport failure, raise_for_status on 4xx/5xx), on a 2xx status other
\* than 200 and on a Content-Type without text/html, else response.text
RequestsOutcomes == {NoneValue} \cup Bodies

\* mutant: only an empty result sends load_content to Selenium
NeedsFallback_EmptyOnly(c) == Falsy(c)

\* mutant: Selenium is tried whatever strategy A returned
NeedsFallback_Always(c) == TRUE

\* line 254: if not content or self._check_for_access_denial(content)
NeedsFallback(c) == Falsy(c) \/ check_for_access_denial(c)

\* mutant: only an empty result fails the acquisition
Unusable_EmptyOnly(c) == Falsy(c)

\* line 259: if not content or self._check_for_access_denial(content)
Unusable(c) == Falsy(c) \/ check_for_access_denial(c)

\* mutant: a source that is no file is taken for a url
DetectedType_DefaultUrl(html_file, valid_url) == IF html_file THEN "file" ELSE "url"

\* lines 238-243: 'file' when _is_html_file(source), 'url' when
\* _is_valid_url(source), else nothing ("None") and the ValueError
DetectedType(html_file, valid_url) ==
    IF html_file THEN "file" ELSE IF valid_url THEN "url" ELSE "None"

\* lines 236-243: auto-detect the source type
DetectSourceType ==
    /\ OthersUnchangedByLoad
    /\ l_pc = "detect"
    /\ IF source_type # "None"
         THEN /\ l_pc' = "dispatch"
              /\ UNCHANGED <<source_type, l_error>>
         ELSE IF DetectedType(is_html_file, is_valid_url) # "None"
           THEN /\ source_type' = DetectedType(is_html_file, is_valid_url)
                /\ l_pc' = "dispatch"
                /\ UNCHANGED l_error
           ELSE /\ l_error' = "ValueError: could not determine"
                /\ l_pc' = "raised"
                /\ UNCHANGED source_type
    /\ UNCHANGED <<is_html_file, is_valid_url, content, l_ret, driver, a_calls,
                   b_calls, file_reads, a_result, b_result>>

\* mutant: a file that cannot be read is fetched with the browser
AfterFileFailure_Fallback == "selenium"

\* lines 130-132: open/read/decode failed: ValueError, which load_content
\* lets through
AfterFileFailure == "raised"

\* lines 245-247 and 120-132: the file branch, _load_from_html_file
LoadFromHtmlFile ==
    /\ OthersUnchangedByLoad
    /\ l_pc = "dispatch"
    /\ LowerType(source_type) = "file"
    /\ file_reads' = file_reads + 1
    /\ \/ \E b \in Bodies :
            /\ content' = b
            /\ l_pc' = "extract"
            /\ UNCHANGED l_error
       \/ /\ l_error' = "ValueError: could not load file"
          /\ l_pc' = AfterFileFailure
          /\ UNCHANGED content
    /\ UNCHANGED <<source_type, is_html_file, is_valid_url, l_ret, driver,
                   a_calls, b_calls, a_result, b_result>>

\* lines 248-251 and 45-75: the url branch, _load_with_requests first
LoadWithRequests ==
    /\ OthersUnchangedByLoad
    /\ l_pc = "dispatch"
    /\ LowerType(source_type) = "url"
    /\ a_calls' = a_calls + 1
    /\ \E r \in RequestsOutcomes :
         /\ content' = r
         /\ a_result' = r
    /\ l_pc' = "check_a"
    /\ UNCHANGED <<source_type, is_html_file, is_valid_url, l_ret, l_error,
                   driver, b_calls, file_reads, b_result>>

\* lines 261-262: neither 'url' nor 'file'
InvalidSourceType ==
    /\ OthersUnchangedByLoad
    /\ l_pc = "dispatch"
    /\ LowerType(source_type) \notin {"file", "url"}
    /\ l_error' = "ValueError: invalid source_type"
    /\ l_pc' = "raised"
    /\ UNCHANGED <<source_type, is_html_file, is_valid_url, content, l_ret,
                   driver, a_calls, b_calls, file_reads, a_result, b_result>>

\* line 254: decide whether Selenium is needed
CheckRequestsResult ==
    /\ OthersUnchangedByLoad
    /\ l_pc = "check_a"
    /\ l_pc' = IF NeedsFallback(content) THEN "selenium" ELSE "check_final"
    /\ UNCHANGED <<source_type, is_html_file, is_valid_url, content, l_ret,
                   l_error, driver, a_calls, b_calls, file_reads, a_result,
                   b_result>>

\* mutant: the driver is left as it is
DriverAfterFinally_Leak(d) == d

\* lines 116-118: finally: if driver: driver.quit()
DriverAfterFinally(d) == IF d = "open" THEN "quit" ELSE d

\* lines 256 and 77-118: _load_with_selenium.  Options() or webdriver.Chrome
\* may fail before driver is assigned: with a WebDriverException None is
\* returned, anything else (an OSError, say) propagates, and in both cases
\* there is no driver to quit.  Once the driver exists the page load may fail
\* (TimeoutException or WebDriverException, None is returned) or raise
\* something else, which propagates; the finally block quits the driver
LoadWithSelenium ==
    /\ OthersUnchangedByLoad
    /\ l_pc = "selenium"
    /\ b_calls' = b_calls + 1
    /\ \/ /\ driver' = DriverAfterFinally("none")
          /\ content' = NoneValue
          /\ b_result' = NoneValue
          /\ l_pc' = "check_final"
          /\ UNCHANGED l_error
       \/ /\ driver' = DriverAfterFinally("open")
          /\ \E r \in {NoneValue} \cup Bodies :
               /\ content' = r
               /\ b_result' = r
          /\ l_pc' = "check_final"
          /\ UNCHANGED l_error
       \/ /\ \E d \in {"none", "open"} : driver' = DriverAfterFinally(d)
          /\ l_error' = "Exception in selenium"
          /\ l_pc' = "raised"
          /\ UNCHANGED <<content, b_result>>
    /\ UNCHANGED <<source_type, is_html_file, is_valid_url, l_ret, a_calls,
                   file_reads, a_result>>

\* lines 259-260: no content, or still a protection page
CheckFinalContent ==
    /\ OthersUnchangedByLoad
    /\ l_pc = "check_final"
    /\ IF Unusable(content)
         THEN /\ l_error' = "ValueError: could not load url"
              /\ l_pc' = "raised"
         ELSE /\ l_pc' = "extract"
              /\ UNCHANGED l_error
    /\ UNCHANGED <<source_type, is_html_file, is_valid_url, content, l_ret,
                   driver, a_calls, b_calls, file_reads, a_result, b_result>>

\* lines 264-268: extract the main content and return it
ExtractAndReturn ==
    /\ OthersUnchangedByLoad
    /\ l_pc = "extract"
    /\ l_ret' = extract_main_content(content)
    /\ l_pc' = "done"
    /\ UNCHANGED <<source_type, is_html_file, is_valid_url, content, l_error,
                   driver, a_calls, b_calls, file_reads, a_result, b_result>>

\* load_content(source, source_type) is entered
LoadInit ==
    /\ l_pc = "detect"
    /\ source_type \in SourceTypes
    /\ is_html_file \in BOOLEAN
    /\ is_valid_url \in BOOLEAN
    /\ content = NoneValue
    /\ l_ret = NoneValue
    /\ l_error = "None"
    /\ driver = "none"
    /\ a_calls = 0
    /\ b_calls = 0
    /\ file_reads = 0
    /\ a_result = NoneValue
    /\ b_result = NoneValue

\* no load_content call is under way
LoadIdle ==
    /\ l_pc = "idle"
    /\ source_type = "None"
    /\ is_html_file = FALSE
    /\ is_valid_url = FALSE
    /\ content = NoneValue
    /\ l_ret = NoneValue
    /\ l_error = "None"
    /\ driver = "none"
    /\ a_calls = 0
    /\ b_calls = 0
    /\ file_reads = 0
    /\ a_result = NoneValue
    /\ b_result = NoneValue

LoadNext ==
    \/ DetectSourceType
    \/ LoadFromHtmlFile
    \/ LoadWithRequests
    \/ InvalidSourceType
    \/ CheckRequestsResult
    \/ LoadWithSelenium
    \/ CheckFinalContent
    \/ ExtractAndReturn

-----------------------------------------------------------------------------
(* ClaimExtractor.extract_claims, and the sort and cut of analyze_content. *)

\* an element of the JSON array the oracle replies with.  `valid` is FALSE
\* for an element FactClaim cannot be built from (not an object, or a field
\* of the wrong type); has_claim / has_importance tell whether the key exists
ItemSky == [valid |-> TRUE, has_claim |-> TRUE, claim |-> <<"S", "k", "y">>,
            has_importance |-> TRUE, importance |-> 3]
ItemSKY == [valid |-> TRUE, has_claim |-> TRUE, claim |-> <<"S", "K", "Y">>,
            has_importance |-> TRUE, importance |-> 8]
ItemSea == [valid |-> TRUE, has_claim |-> TRUE, claim |-> <<"s", "e", "a">>,
            has_importance |-> TRUE, importance |-> 11]
ItemBare == [valid |-> TRUE, has_claim |-> FALSE, claim |-> <<>>,
             has_importance |-> FALSE, importance |-> 0]
ItemBad == [valid |-> FALSE, has_claim |-> TRUE, claim |-> <<"s", "e", "a">>,
            has_importance |-> TRUE, importance |-> 0]

Items == {ItemSky, ItemSKY, ItemSea, ItemBare, ItemBad}

SeqsUpTo(S, n) == UNION {[1..k -> S] : k \in 0..n}

\* the oracle's reply for a chunk: text without [...], text whose [...] is
\* not JSON, or text holding a JSON array
Replies ==
    {[kind |-> "no_array", items |-> <<>>], [kind |-> "bad_json", items |-> <<>>]}
    \cup {[kind |-> "array", items |-> xs] : xs \in SeqsUpTo(Items, MaxReplyLen)}

\* mutant: the id leaves out the chunk
ClaimId_NoChunk(chunk_id, i) == <<0, i>>

\* line 160: claim_id = f"claim_{chunk_id}_{i+1}", the two numbers kept apart
\* by "_"; i is the position in the reply, counted from 1
ClaimId(chunk_id, i) == <<chunk_id, i>>

\* lines 160-167: FactClaim(id=f"claim_{chunk_id}_{i+1}", claim=..., importance=...)
\* with the defaults of claim_data.get
FactClaim(chunk_id, i, claim_data) ==
    [id         |-> ClaimId(chunk_id, i),
     claim      |-> IF claim_data.has_claim THEN claim_data.claim ELSE <<>>,
     importance |-> IF claim_data.has_importance THEN claim_data.importance ELSE 5]

\* no chunk was sent to the oracle yet
NoChunkReply == [kind |-> "none", items |-> <<>>]

\* mutant: the items before the one that fails are kept
extract_claims_from_chunk_Partial(reply, chunk_id) ==
    IF reply.kind # "array" THEN <<>>
    ELSE LET bad == {k \in 1..Len(reply.items) : ~reply.items[k].valid}
             n == IF bad = {} THEN Len(reply.items)
                  ELSE (CHOOSE k \in bad : \A j \in bad : k <= j) - 1
         IN [k \in 1..n |-> FactClaim(chunk_id, k, reply.items[k])]

\* lines 151-177: _extract_claims_from_chunk: no match and every exception
\* (json.loads, .get, the validation of FactClaim) give the empty list
extract_claims_from_chunk(reply, chunk_id) ==
    IF reply.kind # "array" THEN <<>>
    ELSE IF \E k \in 1..Len(reply.items) : ~reply.items[k].valid THEN <<>>
    ELSE [k \in 1..Len(reply.items) |-> FactClaim(chunk_id, k, reply.items[k])]

Prefix(xs, n) == SubSeq(xs, 1, IF n < Len(xs) THEN n ELSE Len(xs))

\* mutant: the text is compared as written
DedupKey_CaseSensitive(c) == c.claim

\* line 67: claim_text = claim.claim.lower()
DedupKey(c) == Lower(c.claim)

\* lines 63-70: keep a claim when its lower-cased text was not seen before
RECURSIVE RemoveDuplicates(_, _)
RemoveDuplicates(cs, seen_claims) ==
    IF cs = <<>> THEN <<>>
    ELSE IF DedupKey(Head(cs)) \in seen_claims
      THEN RemoveDuplicates(Tail(cs), seen_claims)
      ELSE <<Head(cs)>> \o RemoveDuplicates(Tail(cs), seen_claims \cup {DedupKey(Head(cs))})

\* x goes behind every element whose importance is not smaller (stable)
RECURSIVE InsertByImportance(_, _)
InsertByImportance(sorted, x) ==
    IF sorted = <<>> THEN <<x>>
    ELSE IF Head(sorted).importance >= x.importance
      THEN <<Head(sorted)>> \o InsertByImportance(Tail(sorted), x)
      ELSE <<x>> \o sorted

\* mutant: the claims stay in extraction order
SortedByImportance_Unsorted(cs) == cs

\* sorted(claims, key=lambda x: x.importance, reverse=True): stable
RECURSIVE SortedByImportance(_)
SortedByImportance(cs) ==
    IF cs = <<>> THEN <<>>
    ELSE InsertByImportance(SortedByImportance(SubSeq(cs, 1, Len(cs) - 1)), cs[Len(cs)])

\* mutant: the chunk loop never stops early
EnoughClaims_Never(n, limit) == FALSE

\* claim_extractor.py line 58: if len(all_claims) >= max_claims
EnoughClaims(n, limit) == n >= limit

\* claim_extractor.py lines 50-60: one pass of the chunk loop
ProcessChunk ==
    /\ OthersUnchangedByExtract
    /\ e_pc = "chunks"
    /\ \E reply \in Replies :
         LET chunk_claims == extract_claims_from_chunk(reply, chunk_i)
             extended == all_claims \o chunk_claims
         IN /\ candidates' = candidates \o chunk_claims
            /\ chunk_reply' = reply
            /\ IF EnoughClaims(Len(extended), max_claims)
                 THEN /\ all_claims' = Prefix(extended, max_claims)
                      /\ e_pc' = "dedup"
                      /\ UNCHANGED chunk_i
                 ELSE /\ all_claims' = extended
                      /\ chunk_i' = chunk_i + 1
                      /\ e_pc' = IF chunk_i + 1 < n_chunks THEN "chunks" ELSE "dedup"
    /\ oracle_calls' = oracle_calls + 1
    /\ UNCHANGED <<max_claims, n_chunks, unique_claims, claims>>

\* mutant: duplicates are removed from everything the chunks gave
DedupInput_Uncut(cut, uncut) == uncut

\* claim_extractor.py line 66: for claim in all_claims, the list cut at line 59
DedupInput(cut, uncut) == cut

\* claim_extractor.py lines 62-75: remove duplicates and return
ReturnUniqueClaims ==
    /\ OthersUnchangedByExtract
    /\ e_pc = "dedup"
    /\ unique_claims' = RemoveDuplicates(DedupInput(all_claims, candidates), {})
    /\ e_pc' = "sort"
    /\ UNCHANGED <<max_claims, n_chunks, chunk_i, all_claims, claims, candidates,
                   oracle_calls, chunk_reply>>

\* fact_check_engine.py line 97: sorted(...)[:max_claims]
SortAndCut ==
    /\ OthersUnchangedByExtract
    /\ e_pc = "sort"
    /\ claims' = Prefix(SortedByImportance(unique_claims), max_claims)
    /\ e_pc' = "done"
    /\ UNCHANGED <<max_claims, n_chunks, chunk_i, all_claims, unique_claims,
                   candidates, oracle_calls, chunk_reply>>

\* extract_claims is entered: _split_content gives at least one chunk
ExtractInit ==
    /\ e_pc = "chunks"
    /\ max_claims \in 0..MaxClaimsBound
    /\ n_chunks \in 1..NumChunks
    /\ chunk_i = 0
    /\ all_claims = <<>>
    /\ unique_claims = <<>>
    /\ claims = <<>>
    /\ candidates = <<>>
    /\ oracle_calls = 0
    /\ chunk_reply = NoChunkReply

ExtractIdle ==
    /\ e_pc = "idle"
    /\ max_claims = 0
    /\ n_chunks = 0
    /\ chunk_i = 0
    /\ all_claims = <<>>
    /\ unique_claims = <<>>
    /\ claims = <<>>
    /\ candidates = <<>>
    /\ oracle_calls = 0
    /\ chunk_reply = NoChunkReply

ExtractNext ==
    \/ ProcessChunk
    \/ ReturnUniqueClaims
    \/ SortAndCut

-----------------------------------------------------------------------------
(* The verification loop of analyze_content and the weighted overall       *)
(* score of _generate_overall_analysis.  Scores are counted in tenths.     *)

\* "importance" values an oracle reply may carry (FactClaim accepts any int)
ImportanceValues == {-2, 0, 2, 8, 10}

\* "score" values an oracle reply may carry, in tenths (FactCheckResult
\* accepts any float)
ScoreValues == {-10, 0, 10, 40, 50, 70}

\* the oracle's scoring reply: unparsable, or a JSON object with or without
\* a "score" key
ScoringReplies ==
    {[kind |-> "unparsable", has_score |-> FALSE, score |-> 0],
     [kind |-> "object", has_score |-> FALSE, score |-> 0]}
    \cup {[kind |-> "object", has_score |-> TRUE, score |-> v] : v \in ScoreValues}

\* claim_verifier.py lines 250-295: the score of the FactCheckResult:
\* analysis.get("score", 0), or 2.5 when the reply cannot be used
ResultScore(reply) ==
    IF reply.kind = "unparsable" THEN 25
    ELSE IF reply.has_score THEN reply.score ELSE 0

\* mutant: the result does not carry the id of its claim
FactCheckResult_OtherId(claim, reply) == [claim_id |-> <<0, 0>>, score |-> ResultScore(reply)]

\* claim_verifier.py lines 250-261, 269-279: FactCheckResult(claim_id=claim.id, ...)
FactCheckResult(claim, reply) == [claim_id |-> claim.id, score |-> ResultScore(reply)]

\* mutant: every claim has weight 1
Weight_Unweighted(claim) == 1

\* fact_check_engine.py lines 167, 175: the weight of a claim is its importance
Weight(claim) == claim.importance

RECURSIVE SumWeights(_)
\* line 167: total_weight = sum(claim.importance for claim in claims)
SumWeights(cs) == IF cs = <<>> THEN 0 ELSE Weight(Head(cs)) + SumWeights(Tail(cs))

\* lines 172-176: the score of the first result whose claim_id is the claim's
\* id, times the importance; nothing when no result matches
RECURSIVE MatchedScore(_, _)
MatchedScore(claim, rs) ==
    IF rs = <<>> THEN 0
    ELSE IF Head(rs).claim_id = claim.id THEN Head(rs).score * Weight(claim)
    ELSE MatchedScore(claim, Tail(rs))

\* lines 168-176: total_score
RECURSIVE TotalScore(_, _)
TotalScore(cs, rs) ==
    IF cs = <<>> THEN 0 ELSE MatchedScore(Head(cs), rs) + TotalScore(Tail(cs), rs)

\* the odd k in -399..399 for which Python's round(k/20, 1) is (k+1)/20:
\* k/20 lies half way between two tenths, and round() decides by the double
\* nearest to k/20 (half to even when k/20 is itself a double)
TieRoundsUp == {
      -399, -393, -389, -385, -383, -379, -373, -369, -365, -363, -359, -353,
      -349, -345, -343, -339, -333, -329, -325, -323, -319, -317, -309, -307,
      -305, -299, -297, -289, -287, -285, -279, -277, -269, -267, -265, -259,
      -257, -249, -247, -245, -239, -237, -229, -227, -225, -219, -217, -209,
      -207, -205, -199, -197, -189, -187, -185, -179, -177, -169, -167, -165,
      -157, -151, -147, -145, -141, -137, -131, -127, -125, -121, -117, -111,
      -107, -105, -101, -97, -91, -87, -85, -81, -73, -71, -65, -63,
      -61, -53, -51, -45, -43, -41, -39, -33, -29, -25, -23, -19,
      -17, -7, -5, -3, 1, 9, 11, 13, 15, 21, 27, 31,
      35, 37, 47, 49, 55, 57, 59, 67, 69, 75, 77, 79,
      83, 89, 93, 95, 99, 103, 109, 113, 115, 119, 123, 129,
      133, 135, 139, 143, 149, 153, 155, 159, 161, 163, 171, 173,
      175, 181, 183, 191, 193, 195, 201, 203, 211, 213, 215, 221,
      223, 231, 233, 235, 241, 243, 251, 253, 255, 261, 263, 271,
      273, 275, 281, 283, 291, 293, 295, 301, 303, 311, 313, 315,
      321, 327, 331, 335, 337, 341, 347, 351, 355, 357, 361, 367,
      371, 375, 377, 381, 387, 391, 395, 397 }

\* line 180: round(total_score / total_weight, 1), in tenths; t is
\* total_score in tenths, w > 0 is total_weight
Round1(t, w) ==
    LET q == t \div w
        r == t - q * w
    IN IF 2 * r < w THEN q
       ELSE IF 2 * r > w THEN q + 1
       ELSE IF (2 * q + 1) \in TieRoundsUp THEN q + 1 ELSE q

\* lines 166-180: overall_score
OverallScore(cs, rs) ==
    IF SumWeights(cs) > 0 THEN Round1(TotalScore(cs, rs), SumWeights(cs)) ELSE 25

\* fact_check_engine.py lines 101-106: verify the next claim, append its result
VerifyNextClaim ==
    /\ OthersUnchangedByScore
    /\ g_pc = "verify"
    /\ Len(verification_results) < Len(g_claims)
    /\ \E reply \in ScoringReplies :
         verification_results' =
            Append(verification_results,
                   FactCheckResult(g_claims[Len(verification_results) + 1], reply))
    /\ UNCHANGED <<g_pc, g_claims, overall_score>>

\* fact_check_engine.py lines 109 and 166-205: the report's overall score
GenerateOverallAnalysis ==
    /\ OthersUnchangedByScore
    /\ g_pc = "verify"
    /\ Len(verification_results) = Len(g_claims)
    /\ overall_score' = OverallScore(g_claims, verification_results)
    /\ g_pc' = "done"
    /\ UNCHANGED <<g_claims, verification_results>>

\* claims as extraction hands them over: built in reply order, then sorted
\* by importance (fact_check_engine.py line 97)
ExtractedClaims ==
    {[k \in 1..Len(imps) |-> [id |-> <<0, k>>, claim |-> <<>>, importance |-> imps[k]]] :
        imps \in SeqsUpTo(ImportanceValues, MaxScored)}

ScoreInit ==
    /\ g_pc = "verify"
    /\ g_claims \in {SortedByImportance(cs) : cs \in ExtractedClaims}
    /\ verification_results = <<>>
    /\ overall_score = 0

ScoreIdle ==
    /\ g_pc = "idle"
    /\ g_claims = <<>>
    /\ verification_results = <<>>
    /\ overall_score = 0

ScoreNext ==
    \/ VerifyNextClaim
    \/ GenerateOverallAnalysis

-----------------------------------------------------------------------------
(* ClaimVerifier.verify_claim: the sources collected over the queries and  *)
(* _analyze_search_results.  Numbers are written as in the JSON text.      *)

\* sources collected over all queries of one verification (bound)
MaxSources == 3

\* urls of the search results; '' is what result.get('url', '') gives for an
\* item without url
Urls == {"", "u1", "u2"}

\* claim_verifier.py lines 66-71: the source entry of a search result
SourceEntry(url) == [title |-> "T", url |-> url]

\* what one search call returns (nothing is added after a failed search)
HitLists == SeqsUpTo(Urls, MaxSources)

\* the oracle's scoring reply: text without {...}, text whose {...} is not
\* JSON, or a JSON object.  Field values are written as in the JSON text;
\* "bad" is a value of the wrong type ("high" for a number, a number for a
\* list, a list for the explanation); NaN is the literal json.loads accepts;
\* recency_factor "yes" is a string that converts to True, "maybe" one that
\* does not convert to a bool
AnalysisReplies ==
    {[kind |-> k, score |-> "absent", confidence |-> "absent",
      recency_factor |-> "absent", explanation |-> "absent",
      evidence |-> "absent", contradictions |-> "absent"] : k \in {"no_object", "bad_json"}}
    \cup [kind : {"object"},
          score : {"absent", "4.0", "7.0", "bad"},
          confidence : {"absent", "0.7", "0.9", "1.5", "NaN", "bad"},
          recency_factor : {"absent", "false", "true", "yes", "maybe"},
          explanation : {"absent", "plain", "recent", "bad"},
          evidence : {"absent", "list", "bad"},
          contradictions : {"absent", "list"}]

NoReply == [kind |-> "none", score |-> "absent", confidence |-> "absent",
            recency_factor |-> "absent", explanation |-> "absent",
            evidence |-> "absent", contradictions |-> "absent"]

\* the value of a number of the model, in tenths
Tenths(number) ==
    CASE number = "0" -> 0
      [] number = "0.3" -> 3
      [] number = "0.5" -> 5
      [] number = "0.7" -> 7
      [] number = "0.9" -> 9
      [] number = "1.5" -> 15
      [] number = "2.5" -> 25
      [] number = "4.0" -> 40
      [] number = "7.0" -> 70

\* Python's a > b on floats: false when either is NaN
GreaterThan(a, b) == a # "NaN" /\ b # "NaN" /\ Tenths(a) > Tenths(b)

\* no result was returned
NoResult == [score |-> "0", confidence |-> "0", evidence |-> <<>>, contradictions |-> <<>>,
             sources |-> <<>>, explanation |-> [text |-> "none", note |-> FALSE],
             is_recent_news |-> FALSE, returned |-> FALSE]

\* line 224: is_recent_news = analysis.get("recency_factor", False), as a condition
Truthy(recency_factor) == recency_factor \in {"true", "yes", "maybe"}

\* lines 219-261: what makes the try block raise: json.loads, '"recent" not
\* in explanation.lower()' and 'confidence > 0.7' on a value of the wrong
\* type, and the validation of FactCheckResult (score and confidence floats,
\* evidence a list, explanation a str, is_recent_news a bool)
RaisesInTry(reply) ==
    \/ reply.kind = "bad_json"
    \/ /\ reply.kind = "object"
       /\ \/ reply.score = "bad"
          \/ reply.confidence = "bad"
          \/ reply.explanation = "bad"
          \/ reply.evidence = "bad"
          \/ reply.recency_factor = "maybe"

\* lines 232-234: if is_recent_news and confidence > 0.7: confidence = 0.7
CapConfidence(is_recent_news, confidence) ==
    IF is_recent_news /\ GreaterThan(confidence, "0.7") THEN "0.7" ELSE confidence

\* lines 227-229: the explanation, with the note appended for recent news
\* whose explanation does not mention "recent"
Explained(reply) ==
    LET explanation == IF reply.explanation = "absent" THEN "No explanation provided"
                       ELSE reply.explanation
    IN [text |-> explanation,
        note |-> Truthy(reply.recency_factor) /\ explanation # "recent"]

\* mutant: every source with a url is kept
UniqueSources_NoDedup(sources, seen_urls) ==
    SelectSeq(sources, LAMBDA src : src.url # "")

\* lines 237-247: keep a source when its url is not empty and was not seen
RECURSIVE UniqueSources(_, _)
UniqueSources(sources, seen_urls) ==
    IF sources = <<>> THEN <<>>
    ELSE IF Head(sources).url # "" /\ Head(sources).url \notin seen_urls
      THEN <<Head(sources)>> \o UniqueSources(Tail(sources), seen_urls \cup {Head(sources).url})
      ELSE UniqueSources(Tail(sources), seen_urls)

\* mutant: a failed analysis gives an empty result
DefaultResult_Empty(explanation) ==
    [score |-> "0", confidence |-> "0", evidence |-> <<>>, contradictions |-> <<>>,
     sources |-> <<>>, explanation |-> [text |-> explanation, note |-> FALSE],
     is_recent_news |-> FALSE, returned |-> TRUE]

\* lines 269-279 and 285-295: the default result
DefaultResult(explanation) ==
    [score |-> "2.5", confidence |-> "0.3", evidence |-> <<>>, contradictions |-> <<>>,
     sources |-> <<[title |-> "No sources found", url |-> "#"]>>,
     explanation |-> [text |-> explanation, note |-> FALSE],
     is_recent_news |-> FALSE, returned |-> TRUE]

\* lines 217-295: the result built from the oracle's reply
analyze_search_results(reply, sources) ==
    IF reply.kind = "no_object"
      THEN DefaultResult("Analysis failed to provide a clear determination.")
    ELSE IF RaisesInTry(reply)
      THEN DefaultResult("Analysis failed due to an error.")
    ELSE [score |-> IF reply.score = "absent" THEN "0" ELSE reply.score,
          confidence |-> CapConfidence(Truthy(reply.recency_factor),
                                       IF reply.confidence = "absent" THEN "0.5"
                                       ELSE reply.confidence),
          evidence |-> IF reply.evidence = "absent" THEN <<>> ELSE <<"e1">>,
          contradictions |-> IF reply.contradictions = "absent" THEN <<>> ELSE <<"c1">>,
          sources |-> UniqueSources(sources, {}),
          explanation |-> Explained(reply),
          is_recent_news |-> Truthy(reply.recency_factor),
          returned |-> TRUE]

\* lines 55-75: one query is searched and its results' sources are appended
SearchOneQuery ==
    /\ OthersUnchangedByVerify
    /\ v_pc = "search"
    /\ v_queries_left > 0
    /\ \E hits \in HitLists :
         /\ Len(search_sources) + Len(hits) <= MaxSources
         /\ search_sources' = search_sources \o [i \in 1..Len(hits) |-> SourceEntry(hits[i])]
    /\ v_queries_left' = v_queries_left - 1
    /\ UNCHANGED <<v_pc, v_domain_ok, v_reply, v_result>>

\* lines 78-86 and 148-295: _analyze_search_results.  The prompt is built
\* before the try block (lines 184-210): ', '.join(...) on a domain analysis
\* field that is no list of strings raises TypeError out of verify_claim
AnalyzeSearchResults ==
    /\ OthersUnchangedByVerify
    /\ v_pc = "search"
    /\ v_queries_left = 0
    /\ IF v_domain_ok
         THEN \E reply \in AnalysisReplies :
                /\ v_reply' = reply
                /\ v_result' = analyze_search_results(reply, search_sources)
                /\ v_pc' = "done"
         ELSE /\ v_pc' = "raised"
              /\ UNCHANGED <<v_reply, v_result>>
    /\ UNCHANGED <<v_queries_left, search_sources, v_domain_ok>>

\* verify_claim is entered; _formulate_search_queries has given the queries
VerifyInit ==
    /\ v_pc = "search"
    /\ v_queries_left \in 0..MaxQueries
    /\ search_sources = <<>>
    /\ v_domain_ok \in BOOLEAN
    /\ v_reply = NoReply
    /\ v_result = NoResult

VerifyIdle ==
    /\ v_pc = "idle"
    /\ v_queries_left = 0
    /\ search_sources = <<>>
    /\ v_domain_ok = TRUE
    /\ v_reply = NoReply
    /\ v_result = NoResult

VerifyNext ==
    \/ SearchOneQuery
    \/ AnalyzeSearchResults

-----------------------------------------------------------------------------
(* FactCheckEngine.analyze_content: the stages of one analysis run.        *)

\* the domain analysis as the later stages use it.  verification_focus,
\* red_flags and misinformation_patterns tell whether ', '.join(...) accepts
\* the field; domain_expertise_required is "list" (a list of strings), "str"
\* (a string: joinable, but no List[str]) or "bad"; names tells whether
\* domain and topic are strings (FALSE: one of them is a list)
DomainAnalyses ==
    [verification_focus : BOOLEAN,
     red_flags : BOOLEAN,
     misinformation_patterns : BOOLEAN,
     domain_expertise_required : {"list", "str", "bad"},
     names : BOOLEAN]

\* domain_analyzer.py lines 109-116 and 122-129: the default response
DefaultDomainAnalysis ==
    [verification_focus |-> TRUE, red_flags |-> TRUE, misinformation_patterns |-> TRUE,
     domain_expertise_required |-> "list", names |-> TRUE]

\* the oracle's reply to the domain analysis request: text without {...},
\* text whose {...} is not JSON, or a JSON object with fields of any type
DomainReplies ==
    {[kind |-> k, analysis |-> DefaultDomainAnalysis] : k \in {"no_object", "bad_json"}}
    \cup {[kind |-> "object", analysis |-> a] : a \in DomainAnalyses}

\* domain_analyzer.py lines 90-129: the parsed object is returned as it is,
\* anything else gives the default response
analyze_domain(reply) ==
    IF reply.kind = "object" THEN reply.analysis ELSE DefaultDomainAnalysis

\* claim_extractor.py lines 128-138: the extraction prompt joins
\* verification_focus and red_flags, before the try block
ExtractionPromptBuilds(analysis) == analysis.verification_focus /\ analysis.red_flags

\* claim_verifier.py lines 184-197: the verification prompt joins
\* domain_expertise_required and misinformation_patterns, before the try block
VerificationPromptBuilds(analysis) ==
    analysis.domain_expertise_required # "bad" /\ analysis.misinformation_patterns

\* fact_check_engine.py lines 182-205: the summary prompt joins
\* misinformation_patterns, the recommendations prompt joins red_flags, and
\* ContentAnalysisReport takes domain: str, topic: str and
\* domain_expertise_required: List[str]
ReportBuilds(analysis) ==
    /\ analysis.misinformation_patterns
    /\ analysis.red_flags
    /\ analysis.names
    /\ analysis.domain_expertise_required = "list"

Begin(stage) == <<stage, "begin">>

End(stage) == <<stage, "end">>

\* mutant: claims are verified without having been extracted
StageAfterClassify_Skip == "verify_start"

\* fact_check_engine.py lines 91-94: extraction follows the domain analysis
StageAfterClassify == "extract"

\* fact_check_engine.py lines 81 and 116-144: _load_content; every failure of
\* the scraper is re-raised as ValueError
LoadContentStage ==
    /\ OthersUnchangedByPipeline
    /\ p_pc = "acquire"
    /\ \/ /\ p_log' = p_log \o <<Begin("acquire"), End("acquire")>>
          /\ p_pc' = "classify"
          /\ UNCHANGED p_error
       \/ /\ p_log' = p_log \o <<Begin("acquire")>>
          /\ p_pc' = "aborted"
          /\ p_error' = "ValueError: could not load content"
    /\ UNCHANGED <<domain_analysis, p_n, p_verified>>

\* fact_check_engine.py line 91: analyze_domain
AnalyzeDomainStage ==
    /\ OthersUnchangedByPipeline
    /\ p_pc = "classify"
    /\ \E reply \in DomainReplies : domain_analysis' = analyze_domain(reply)
    /\ p_log' = p_log \o <<Begin("classify"), End("classify")>>
    /\ p_pc' = StageAfterClassify
    /\ UNCHANGED <<p_n, p_verified, p_error>>

\* fact_check_engine.py lines 94-97: extract_claims, then sort and cut
ExtractClaimsStage ==
    /\ OthersUnchangedByPipeline
    /\ p_pc = "extract"
    /\ IF ExtractionPromptBuilds(domain_analysis)
         THEN /\ \E n \in 0..NumClaims : p_n' = n
              /\ p_log' = p_log \o <<Begin("extract"), End("extract")>>
              /\ p_pc' = "verify_start"
              /\ UNCHANGED p_error
         ELSE /\ p_log' = p_log \o <<Begin("extract")>>
              /\ p_pc' = "aborted"
              /\ p_error' = "TypeError"
              /\ UNCHANGED p_n
    /\ UNCHANGED <<domain_analysis, p_verified>>

\* fact_check_engine.py line 100: verification_results = []
StartVerifying ==
    /\ OthersUnchangedByPipeline
    /\ p_pc = "verify_start"
    /\ p_log' = p_log \o <<Begin("verify")>>
    /\ p_pc' = "verify"
    /\ UNCHANGED <<domain_analysis, p_n, p_verified, p_error>>

\* fact_check_engine.py lines 101-106: verify_claim for the next claim
VerifyClaimStage ==
    /\ OthersUnchangedByPipeline
    /\ p_pc = "verify"
    /\ p_verified < p_n
    /\ IF VerificationPromptBuilds(domain_analysis)
         THEN /\ p_verified' = p_verified + 1
              /\ UNCHANGED <<p_pc, p_error>>
         ELSE /\ p_pc' = "aborted"
              /\ p_error' = "TypeError"
              /\ UNCHANGED p_verified
    /\ UNCHANGED <<p_log, domain_analysis, p_n>>

\* fact_check_engine.py lines 101-109: the claim loop is exhausted
EndVerifying ==
    /\ OthersUnchangedByPipeline
    /\ p_pc = "verify"
    /\ p_verified = p_n
    /\ p_log' = p_log \o <<End("verify")>>
    /\ p_pc' = "aggregate"
    /\ UNCHANGED <<domain_analysis, p_n, p_verified, p_error>>

\* fact_check_engine.py lines 166-180: the overall score
AggregateStage ==
    /\ OthersUnchangedByPipeline
    /\ p_pc = "aggregate"
    /\ p_log' = p_log \o <<Begin("aggregate"), End("aggregate")>>
    /\ p_pc' = "report"
    /\ UNCHANGED <<domain_analysis, p_n, p_verified, p_error>>

\* fact_check_engine.py lines 182-207 and 114: summary, recommendations and
\* the ContentAnalysisReport, which analyze_content returns
ReportStage ==
    /\ OthersUnchangedByPipeline
    /\ p_pc = "report"
    /\ IF ReportBuilds(domain_analysis)
         THEN /\ p_log' = p_log \o <<Begin("report"), End("report")>>
              /\ p_pc' = "done"
              /\ UNCHANGED p_error
         ELSE /\ p_log' = p_log \o <<Begin("report")>>
              /\ p_pc' = "aborted"
              /\ p_error' = IF domain_analysis.misinformation_patterns
                                /\ domain_analysis.red_flags
                              THEN "ValidationError" ELSE "TypeError"
    /\ UNCHANGED <<domain_analysis, p_n, p_verified>>

\* analyze_content(source, source_type, max_claims) is entered
PipelineInit ==
    /\ p_pc = "acquire"
    /\ p_log = <<>>
    /\ domain_analysis = DefaultDomainAnalysis
    /\ p_n = 0
    /\ p_verified = 0
    /\ p_error = "None"

PipelineIdle ==
    /\ p_pc = "idle"
    /\ p_log = <<>>
    /\ domain_analysis = DefaultDomainAnalysis
    /\ p_n = 0
    /\ p_verified = 0
    /\ p_error = "None"

PipelineNext ==
    \/ LoadContentStage
    \/ AnalyzeDomainStage
    \/ ExtractClaimsStage
    \/ StartVerifying
    \/ VerifyClaimStage
    \/ EndVerifying
    \/ AggregateStage
    \/ ReportStage

-----------------------------------------------------------------------------
(* ClaimVerifier.verify_claim: _formulate_search_queries and the loop that *)
(* runs the search client for every query.                                 *)

\* lines of the oracle's reply to the query request (bound)
MaxLines == 6

\* claim_verifier.py line 121: queries = queries[:5]
MaxSearchQueries == 5

\* a line of the reply: text, or blank (empty or white space only)
LineKinds == {"text", "blank"}

\* the oracle's reply, split at the line ends (line 118)
QueryReplies == SeqsUpTo(LineKinds, MaxLines)

\* line 118: [line.strip() for line in response.split('\n') if line.strip()],
\* each query named by the number of its line
RECURSIVE NonBlankLines(_, _)
NonBlankLines(reply, k) ==
    IF k > Len(reply) THEN <<>>
    ELSE IF reply[k] = "text" THEN <<k>> \o NonBlankLines(reply, k + 1)
    ELSE NonBlankLines(reply, k + 1)

\* mutant: every line of the reply is searched
CapQueries_None(queries) == queries

\* line 121: queries = queries[:5]
CapQueries(queries) == Prefix(queries, MaxSearchQueries)

\* lines 74-75: except Exception: the error is logged and the loop goes on
AfterFailedSearch(next, n) == next + 1

\* lines 49 and 88-126: _formulate_search_queries
FormulateSearchQueries ==
    /\ OthersUnchangedByQueries
    /\ q_pc = "formulate"
    /\ \E reply \in QueryReplies :
         /\ q_reply' = reply
         /\ search_queries' = CapQueries(NonBlankLines(reply, 1))
    /\ q_next' = 1
    /\ q_pc' = "search"
    /\ UNCHANGED q_calls

\* lines 55-75: search_client.search for the next query; its results are
\* added, or the exception it raised is caught
SearchForQuery ==
    /\ OthersUnchangedByQueries
    /\ q_pc = "search"
    /\ q_next <= Len(search_queries)
    /\ \E failed \in BOOLEAN :
         /\ q_calls' = Append(q_calls, [query |-> search_queries[q_next], failed |-> failed])
         /\ q_next' = IF failed THEN AfterFailedSearch(q_next, Len(search_queries))
                                ELSE q_next + 1
    /\ UNCHANGED <<q_pc, q_reply, search_queries>>

\* lines 77-81: the loop is exhausted, the results go to the analysis
FinishSearching ==
    /\ OthersUnchangedByQueries
    /\ q_pc = "search"
    /\ q_next > Len(search_queries)
    /\ q_pc' = "analyze"
    /\ UNCHANGED <<q_reply, search_queries, q_next, q_calls>>

\* verify_claim is entered
QueriesInit ==
    /\ q_pc = "formulate"
    /\ q_reply = <<>>
    /\ search_queries = <<>>
    /\ q_next = 1
    /\ q_calls = <<>>

QueriesIdle ==
    /\ q_pc = "idle"
    /\ q_reply = <<>>
    /\ search_queries = <<>>
    /\ q_next = 1
    /\ q_calls = <<>>

QueriesNext ==
    \/ FormulateSearchQueries
    \/ SearchForQuery
    \/ FinishSearching

-----------------------------------------------------------------------------
(* Specifications: one per subsystem.  A run starts with one subsystem at  *)
(* its entry point and the others idle.                                    *)

InitSearch ==
    SearchInit /\ LoadIdle /\ ExtractIdle /\ ScoreIdle /\ VerifyIdle /\ PipelineIdle /\ QueriesIdle

InitLoad ==
    LoadInit /\ SearchIdle /\ ExtractIdle /\ ScoreIdle /\ VerifyIdle /\ PipelineIdle /\ QueriesIdle

InitExtract ==
    ExtractInit /\ SearchIdle /\ LoadIdle /\ ScoreIdle /\ VerifyIdle /\ PipelineIdle /\ QueriesIdle

InitScore ==
    ScoreInit /\ SearchIdle /\ LoadIdle /\ ExtractIdle /\ VerifyIdle /\ PipelineIdle /\ QueriesIdle

InitVerify ==
    VerifyInit /\ SearchIdle /\ LoadIdle /\ ExtractIdle /\ ScoreIdle /\ PipelineIdle /\ QueriesIdle

InitPipeline ==
    PipelineInit /\ SearchIdle /\ LoadIdle /\ ExtractIdle /\ ScoreIdle /\ VerifyIdle /\ QueriesIdle

InitQueries ==
    QueriesInit /\ SearchIdle /\ LoadIdle /\ ExtractIdle /\ ScoreIdle /\ VerifyIdle
      /\ PipelineIdle

SpecSearch == InitSearch /\ [][SearchNext]_vars

SpecLoad == InitLoad /\ [][LoadNext]_vars

SpecExtract == InitExtract /\ [][ExtractNext]_vars

SpecScore == InitScore /\ [][ScoreNext]_vars

SpecVerify == InitVerify /\ [][VerifyNext]_vars

SpecPipeline == InitPipeline /\ [][PipelineNext]_vars

SpecQueries == InitQueries /\ [][QueriesNext]_vars

-----------------------------------------------------------------------------
(* Properties of WebSearchClient.search, checked under SpecSearch.         *)

\* every attempt of the current call took the timeout branch (lines 127-139):
\* the completion flag was unset and the unit alive when the caller checked
AllTimedOut == cur > 0 /\ timeouts = cur

CallEnded == s_pc \in {"returned", "raised"}

\* the caller is between thread start and the end of the attempt
InAttempt == s_pc \in {"join", "chk_completed", "chk_alive", "chk_exc",
                       "process", "except"}

\* C1 as stated: when every attempt of a search call times out, the call
\* returns an empty list after exactly max_retries attempts and raises nothing.
C1_Original ==
    (CallEnded /\ AllTimedOut) =>
        (s_pc = "returned" /\ ret = <<>> /\ cur = max_retries)

\* C1 amended: when every attempt of a search call is treated as timed out,
\* the call returns an empty list after exactly max_retries + 1 attempts
\* (the first attempt and max_retries retries) and raises nothing.
C1_AllTimeouts ==
    (CallEnded /\ AllTimedOut) =>
        (s_pc = "returned" /\ ret = <<>> /\ cur = max_retries + 1)

C1_Witness ==
    s_pc = "returned" /\ AllTimedOut /\ cur = max_retries + 1 /\ StaleAlive > 0

\* C2: search never raises to its caller, whatever the outcomes of its
\* attempts (timeout, non-200 status, missing results field, transport
\* exception, unconvertible item); once the retry budget is exhausted it
\* returns an empty list.
C2_NeverRaises ==
    /\ ~raised
    /\ s_pc # "raised"
    /\ (s_pc = "returned" /\ retry_count > max_retries) => ret = <<>>

\* the budget ran out on a mix of failures, the last of them an exception,
\* with items of a failed attempt already converted
C2_Witness ==
    /\ s_pc = "returned"
    /\ retry_count > max_retries
    /\ timeouts > 0
    /\ errors > 0
    /\ search_results # <<>>

\* C3: timeouts and service errors draw on one retry counter: a call makes at
\* most max_retries retries after its first attempt, and the retry delay
\* elapses before each retry.
C3_SharedCounter ==
    /\ retry_count = timeouts + errors
    /\ cur <= max_retries + 1
    /\ (InAttempt \/ s_pc = "returned") => (cur >= 1 /\ slept = cur - 1)
    /\ s_pc = "loop" => slept = cur

\* the last permitted attempt is running after both kinds of failure
C3_Witness ==
    /\ s_pc = "join"
    /\ cur = max_retries + 1
    /\ timeouts > 0
    /\ errors > 0

\* C4: a unit abandoned on timeout cannot affect what is observed after its
\* deadline: the completion flag, result list and error slot a later attempt
\* reads are written only by that attempt's own unit.
C4_OwnUnitOnly ==
    s_pc \in {"chk_completed", "chk_alive", "chk_exc", "process"} => ~foreign_write

\* C5 as stated: at most one request unit is alive at any time.
C5_Original == AliveUnits <= 1

\* C5 amended: the caller waits on at most one unit at a time: a retry, the
\* search for the next query and the verification of the next claim start
\* only after the join on every unit started earlier has returned; units
\* abandoned on timeout may still be alive then.
C5_OneAwaited ==
    /\ unjoined <= 1
    /\ s_pc = "join" => unjoined = 1
    /\ s_pc \in {"loop", "queries", "verify", "done", "returned"} => unjoined = 0

\* claim 2's unit is awaited while a unit of claim 1 is still alive
C5_Witness ==
    /\ s_pc = "join"
    /\ claim_no = 2
    /\ orphans > 0
    /\ Alive(unit)

-----------------------------------------------------------------------------
(* Properties of ContentScraper.load_content, checked under SpecLoad.      *)

UrlBranch == a_calls > 0

\* C6: for a URL source, whenever strategy A yields nothing or a body with a
\* block-indicator phrase, strategy B is attempted before load_content can
\* fail: no URL acquisition fails without B having been attempted.
C6_FallbackBeforeFailure ==
    /\ (UrlBranch /\ l_pc = "raised") => b_calls >= 1
    /\ (UrlBranch /\ l_pc \in {"check_final", "extract", "done", "raised"}
          /\ (Falsy(a_result) \/ MatchesBlockSignature(a_result)))
         => b_calls >= 1

\* A returned a page with "captcha" in it, B was tried, the acquisition failed
C6_Witness ==
    /\ l_pc = "raised"
    /\ a_result = BodyCaptcha
    /\ b_calls = 1

\* C7: for a URL source, load_content returns text only when the raw document
\* it post-processes is non-empty and matches no block signature; when
\* strategy B too yields nothing or a block-signatured body, load_content
\* fails with the acquisition error and returns no text.
C7_UsableOrError ==
    /\ (UrlBranch /\ l_pc \in {"extract", "done"}) =>
          (~Falsy(content) /\ ~MatchesBlockSignature(content))
    /\ (UrlBranch /\ l_pc = "done") => l_ret = extract_main_content(content)
    /\ (UrlBranch /\ l_pc \in {"extract", "done", "raised"} /\ b_calls >= 1
          /\ l_error # "Exception in selenium"
          /\ (Falsy(b_result) \/ MatchesBlockSignature(b_result)))
         => (l_pc = "raised" /\ l_error = "ValueError: could not load url"
             /\ l_ret = NoneValue)

\* B delivered a protection page after A had delivered nothing
C7_Witness ==
    /\ l_pc = "raised"
    /\ a_result = NoneValue
    /\ b_result = BodyDenied
    /\ l_error = "ValueError: could not load url"

-----------------------------------------------------------------------------
(* Properties of the overall score, checked under SpecScore.               *)

RECURSIVE SeqSum(_)
SeqSum(xs) == IF xs = <<>> THEN 0 ELSE Head(xs) + SeqSum(Tail(xs))

Abs(n) == IF n < 0 THEN -n ELSE n

\* the importance of the i-th claim and the score of the i-th result
PairedImportances == [i \in 1..Len(g_claims) |-> g_claims[i].importance]
PairedProducts ==
    [i \in 1..Len(g_claims) |-> verification_results[i].score * g_claims[i].importance]

\* the (score, importance) pairs of the report, scores in tenths
ScoredPairs ==
    {<<verification_results[i].score, g_claims[i].importance>> : i \in 1..Len(g_claims)}

\* C8: the overall score of every report lies in [0, 5], for any claims and
\* any oracle-supplied per-claim scores and importances; with no claim it is
\* exactly 2.5.
C8_ScoreInRange ==
    g_pc = "done" =>
        /\ overall_score >= 0
        /\ overall_score <= 50
        /\ g_claims = <<>> => overall_score = 25

\* C9: when total importance is positive, the overall score is the sum of
\* score_i x importance_i over the sum of importance_i, rounded to one
\* decimal; {(5, 10), (0, 0)} gives 5.0 and {(4, 2), (1, 8)} gives 1.6.
C9_WeightedMean ==
    (g_pc = "done" /\ SeqSum(PairedImportances) > 0) =>
        /\ 2 * Abs(overall_score * SeqSum(PairedImportances) - SeqSum(PairedProducts))
              <= SeqSum(PairedImportances)
        /\ (Len(g_claims) = 2 /\ ScoredPairs = {<<50, 10>>, <<0, 0>>})
              => overall_score = 50
        /\ (Len(g_claims) = 2 /\ ScoredPairs = {<<40, 2>>, <<10, 8>>})
              => overall_score = 16

\* the report for the claims {(4, 2), (1, 8)}
C9_Witness ==
    /\ g_pc = "done"
    /\ Len(g_claims) = 2
    /\ ScoredPairs = {<<40, 2>>, <<10, 8>>}
    /\ overall_score = 16

-----------------------------------------------------------------------------
(* Properties of extract_claims, checked under SpecExtract.                *)

\* position in `candidates` of the first claim whose text equals t ignoring case
FirstWithText(t) ==
    CHOOSE k \in 1..Len(candidates) :
        /\ Lower(candidates[k].claim) = t
        /\ \A j \in 1..(k - 1) : Lower(candidates[j].claim) # t

\* C10: in the list extract_claims returns no two claims have texts that are
\* equal ignoring case, and among candidates with the same case-insensitive
\* text the one occurring first in chunk order is the one kept.
C10_NoCaseDuplicates ==
    e_pc \in {"sort", "done"} =>
        /\ \A i, j \in 1..Len(unique_claims) :
              i < j => Lower(unique_claims[i].claim) # Lower(unique_claims[j].claim)
        /\ \A i \in 1..Len(unique_claims) :
              unique_claims[i] = candidates[FirstWithText(Lower(unique_claims[i].claim))]
        /\ \A k \in 1..Len(all_claims) :
              \E i \in 1..Len(unique_claims) :
                  Lower(unique_claims[i].claim) = Lower(all_claims[k].claim)

\* two candidates from different chunks differ only in case; one was dropped
C10_Witness ==
    /\ e_pc = "sort"
    /\ \E i, j \in 1..Len(all_claims) :
          /\ all_claims[i].id[1] < all_claims[j].id[1]
          /\ all_claims[i].claim # all_claims[j].claim
          /\ Lower(all_claims[i].claim) = Lower(all_claims[j].claim)
    /\ Len(unique_claims) < Len(all_claims)

\* C11: the claim list the pipeline goes on to verify has at most max_claims
\* claims and is in non-increasing order of importance, for any candidate
\* batches and any max_claims >= 0.
C11_CutAndSorted ==
    e_pc = "done" =>
        /\ Len(claims) <= max_claims
        /\ \A i \in 1..(Len(claims) - 1) :
              claims[i].importance >= claims[i + 1].importance

\* more candidates than max_claims were extracted, and the sort moved a claim
C11_Witness ==
    /\ e_pc = "done"
    /\ max_claims >= 2
    /\ Len(candidates) > max_claims
    /\ Len(claims) = max_claims
    /\ claims # unique_claims
    /\ claims[1].importance > claims[2].importance

-----------------------------------------------------------------------------
(* Further properties of ContentScraper.load_content, under SpecLoad.      *)

\* C17: for a file source load_content reads the file exactly once and calls
\* neither strategy A nor strategy B; a read or decode failure fails the
\* acquisition at once, with no retry and no fallback.
C17_FileReadOnce ==
    /\ (LowerType(source_type) = "file" /\ l_pc \in {"extract", "done", "raised", "selenium", "check_final"})
          => (file_reads = 1 /\ a_calls = 0 /\ b_calls = 0)
    /\ l_error = "ValueError: could not load file"
          => (l_pc = "raised" /\ file_reads = 1 /\ a_calls = 0 /\ b_calls = 0
              /\ l_ret = NoneValue)

\* a file given as 'File' could not be read
C17_Witness ==
    /\ l_pc = "raised"
    /\ source_type = "File"
    /\ file_reads = 1
    /\ l_error = "ValueError: could not load file"

\* C18: when the kind is unspecified and the source is neither an existing
\* html file nor a string with scheme and host, load_content fails at once
\* with the could-not-determine error: no file read, no strategy A or B
\* attempt, no retry.
C18_AmbiguousFailsAtOnce ==
    [][ (l_pc = "detect" /\ source_type = "None" /\ ~is_html_file /\ ~is_valid_url)
          => /\ l_pc' = "raised"
             /\ l_error' = "ValueError: could not determine"
             /\ file_reads' = 0 /\ a_calls' = 0 /\ b_calls' = 0
             /\ l_ret' = NoneValue ]_vars

\* the ambiguous source was rejected with nothing read or fetched
C18_Witness ==
    /\ l_pc = "raised"
    /\ l_error = "ValueError: could not determine"
    /\ source_type = "None"
    /\ ~is_html_file /\ ~is_valid_url
    /\ file_reads = 0 /\ a_calls = 0 /\ b_calls = 0

\* C20: every browser driver strategy B creates is quit before
\* _load_with_selenium returns or raises, on success, on page-load timeout
\* and on any exception raised after the driver was created; no driver is
\* open after load_content ends.  A call that failed before the driver was
\* created has none to release; a call that returned a page had one.
C20_DriverReleased ==
    /\ driver # "open"
    /\ (b_calls > 0 /\ ~Falsy(b_result)) => driver = "quit"
    /\ driver = "quit" => b_calls > 0

\* an exception that _load_with_selenium does not catch left it with the
\* driver quit
C20_Witness ==
    /\ l_pc = "raised"
    /\ l_error = "Exception in selenium"
    /\ driver = "quit"

-----------------------------------------------------------------------------
(* A further property of WebSearchClient.search, under SpecSearch.         *)

\* C19: an attempt that receives a well-formed response with an empty results
\* list ends the search call successfully with an empty list: it is not
\* counted as a failure, consumes no retry and no further attempt follows.
C19_EmptyEndsCall ==
    [][ (s_pc = "process" /\ results = <<>> /\ s_pc' # s_pc)
          => /\ s_pc' = "returned"
             /\ ret' = <<>>
             /\ retry_count' = retry_count
             /\ errors' = errors
             /\ cur' = cur ]_vars

-----------------------------------------------------------------------------
(* Properties of ClaimVerifier.verify_claim, under SpecVerify.             *)

\* C12: when the scoring reply cannot be parsed (no JSON object, invalid
\* JSON, or fields that fail result construction) verify_claim returns,
\* without raising, a result with score 2.5, confidence 0.3, empty evidence
\* and contradiction lists and a non-empty placeholder source list.
C12_UnparsableGivesDefault ==
    /\ v_reply # NoReply => v_pc = "done"
    /\ (\/ v_reply.kind \in {"no_object", "bad_json"}
        \/ v_reply.score = "bad"
        \/ v_reply.confidence = "bad"
        \/ v_reply.explanation = "bad"
        \/ v_reply.evidence = "bad"
        \/ v_reply.recency_factor = "maybe")
          => /\ v_result.returned
             /\ v_result.score = "2.5"
             /\ v_result.confidence = "0.3"
             /\ v_result.evidence = <<>>
             /\ v_result.contradictions = <<>>
             /\ v_result.sources = <<[title |-> "No sources found", url |-> "#"]>>

\* a reply whose object has an ill-typed score was answered with the default
\* result although the searches had found sources
C12_Witness ==
    /\ v_pc = "done"
    /\ v_reply.kind = "object"
    /\ v_reply.score = "bad"
    /\ Len(search_sources) > 0
    /\ v_result.score = "2.5"
    /\ v_result.confidence = "0.3"

\* C13: the sources of a result contain no two entries with the same url,
\* even when several queries return the same url, and the entries appear in
\* the order in which their urls were first seen across the queries.
C13_UniqueInFirstSeenOrder ==
    LET sources == v_result.sources
        FirstSeen(url) == CHOOSE i \in 1..Len(search_sources) :
                            /\ search_sources[i].url = url
                            /\ \A j \in 1..(i - 1) : search_sources[j].url # url
        parsed == v_result.returned /\ \A i \in 1..Len(sources) : sources[i].url # "#"
    IN /\ \A i, j \in 1..Len(sources) : i # j => sources[i].url # sources[j].url
       /\ parsed =>
            /\ \A i \in 1..Len(sources) :
                  /\ sources[i].url # ""
                  /\ \E k \in 1..Len(search_sources) : search_sources[k].url = sources[i].url
            /\ \A k \in 1..Len(search_sources) :
                  search_sources[k].url # ""
                    => \E i \in 1..Len(sources) : sources[i].url = search_sources[k].url
            /\ \A i, j \in 1..Len(sources) :
                  i < j => FirstSeen(sources[i].url) < FirstSeen(sources[j].url)

\* two queries returned u2, u1 and then u2 again: the result lists u2, u1
C13_Witness ==
    /\ v_pc = "done"
    /\ v_reply.kind = "object"
    /\ Len(search_sources) = 3
    /\ search_sources[1].url = "u2"
    /\ search_sources[2].url = "u1"
    /\ search_sources[3].url = "u2"
    /\ Len(v_result.sources) = 2
    /\ v_result.sources[1].url = "u2"
    /\ v_result.sources[2].url = "u1"

\* C14: every result whose recency flag is set has confidence at most 0.7,
\* whatever confidence the oracle reported.
C14_RecentCapped ==
    (v_result.returned /\ v_result.is_recent_news)
      => (v_result.confidence # "NaN" /\ Tenths(v_result.confidence) <= Tenths("0.7"))

-----------------------------------------------------------------------------
(* Properties of FactCheckEngine.analyze_content, under SpecPipeline.      *)

\* C15: within one analysis run the stages occur in the order acquire,
\* classify domain, extract claims, verify claims, aggregate, report; no
\* stage begins before its predecessor has completed and no stage runs
\* twice.
C15_StagesInOrder ==
    LET order == <<"acquire", "classify", "extract", "verify", "aggregate", "report">>
        canonical == [i \in 1..(2 * Len(order)) |->
                        <<order[(i + 1) \div 2], IF i % 2 = 1 THEN "begin" ELSE "end">>]
    IN /\ Len(p_log) <= Len(canonical)
       /\ \A i \in 1..Len(p_log) : p_log[i] = canonical[i]
       /\ p_verified > 0 => (Len(p_log) >= 7 /\ p_log[7] = <<"verify", "begin">>)
       /\ p_pc = "done" => p_log = canonical

\* a run over NumClaims claims went through all six stages
C15_Witness ==
    /\ p_pc = "done"
    /\ p_n = NumClaims
    /\ p_verified = NumClaims
    /\ Len(p_log) = 12

\* C16: once content acquisition has succeeded analyze_content always
\* completes with a report: no oracle reply and no search failure aborts
\* the run; only an acquisition-stage failure aborts it.
C16_OnlyAcquisitionAborts ==
    p_pc = "aborted"
      => (p_error = "ValueError: could not load content" /\ p_log = << <<"acquire", "begin">> >>)

-----------------------------------------------------------------------------
(* Further properties of extract_claims, under SpecExtract.                *)

\* C21: extract_claims queries the oracle for the chunks in chunk order and
\* stops as soon as the accumulated candidate count reaches max_claims: the
\* accumulated list is cut to its first max_claims candidates and no later
\* chunk is sent to the oracle.
C21_StopsWhenEnough ==
    /\ \A i \in 1..Len(candidates) :
          /\ candidates[i].id[1] < oracle_calls
          /\ i < Len(candidates) => candidates[i].id[1] <= candidates[i + 1].id[1]
    /\ e_pc = "chunks" =>
          /\ oracle_calls = chunk_i
          /\ chunk_i < n_chunks
          /\ all_claims = candidates
          /\ oracle_calls > 0 => Len(candidates) < max_claims
    /\ e_pc \in {"dedup", "sort", "done"} =>
          /\ Len(candidates) >= max_claims =>
                /\ all_claims = SubSeq(candidates, 1, max_claims)
                /\ \A i \in 1..Len(candidates) :
                      candidates[i].id[1] < oracle_calls - 1 => i < max_claims
          /\ Len(candidates) < max_claims =>
                /\ all_claims = candidates
                /\ oracle_calls = n_chunks

\* the first of two chunks gave more candidates than max_claims: the list was
\* cut and the second chunk was never sent
C21_Witness ==
    /\ e_pc = "dedup"
    /\ n_chunks = 2
    /\ oracle_calls = 1
    /\ max_claims = 1
    /\ Len(candidates) = 2
    /\ Len(all_claims) = 1

\* C22: a chunk whose reply cannot be turned into the claim list (no JSON
\* array, invalid JSON, or an item that fails claim construction) contributes
\* zero claims, raises nothing, and does not stop the processing of the
\* following chunks.
C22_BadChunkGivesNothing ==
    [][ (/\ oracle_calls' = oracle_calls + 1
         /\ \/ chunk_reply'.kind \in {"no_array", "bad_json"}
            \/ \E k \in 1..Len(chunk_reply'.items) : ~chunk_reply'.items[k].valid)
          => /\ candidates' = candidates
             /\ all_claims' = SubSeq(all_claims, 1, Len(all_claims'))
             /\ e_pc' \in {"chunks", "dedup"}
             /\ (chunk_i + 1 < n_chunks /\ Len(all_claims) < max_claims)
                   => (e_pc' = "chunks" /\ chunk_i' = chunk_i + 1) ]_vars

\* the first chunk's reply held a valid item and one that fails: nothing was
\* added and the second chunk is next
C22_Witness ==
    /\ e_pc = "chunks"
    /\ chunk_i = 1
    /\ oracle_calls = 1
    /\ chunk_reply.kind = "array"
    /\ Len(chunk_reply.items) = 2
    /\ chunk_reply.items[1].valid
    /\ ~chunk_reply.items[2].valid
    /\ candidates = <<>>

\* C25: every claim in the list the pipeline verifies and reports has an
\* integer importance within 1..10, whatever importance values the oracle's
\* reply contained.
C25_ImportanceInRange ==
    e_pc = "done" => \A i \in 1..Len(claims) : claims[i].importance \in 1..10

\* C26: within one run no two claims carry the same id, across all chunks and
\* all positions within a chunk.
C26_UniqueIds ==
    /\ \A i, j \in 1..Len(candidates) : i # j => candidates[i].id # candidates[j].id
    /\ \A i, j \in 1..Len(all_claims) : i # j => all_claims[i].id # all_claims[j].id
    /\ \A i, j \in 1..Len(unique_claims) : i # j => unique_claims[i].id # unique_claims[j].id
    /\ \A i, j \in 1..Len(claims) : i # j => claims[i].id # claims[j].id

\* the selected claims hold the first item of two different chunks
C26_Witness ==
    /\ e_pc = "done"
    /\ \E i, j \in 1..Len(claims) :
          /\ claims[i].id[1] # claims[j].id[1]
          /\ claims[i].id[2] = claims[j].id[2]

\* C30: deduplication is applied to the candidate list already cut to
\* max_claims: every selected claim is one of the first max_claims
\* candidates; duplicates among those leave fewer than max_claims claims and
\* are never replaced by later distinct candidates.
C30_DedupAfterCut ==
    LET first == SubSeq(candidates, 1, IF Len(candidates) < max_claims
                                         THEN Len(candidates) ELSE max_claims)
    IN e_pc \in {"sort", "done"} =>
         /\ \A i \in 1..Len(unique_claims) :
               \E k \in 1..Len(first) : first[k] = unique_claims[i]
         /\ \A i \in 1..Len(claims) :
               \E k \in 1..Len(first) : first[k] = claims[i]
         /\ (\E i, j \in 1..Len(first) :
                i < j /\ Lower(first[i].claim) = Lower(first[j].claim))
               => Len(unique_claims) < max_claims
         /\ Len(unique_claims) =
               Cardinality({Lower(first[k].claim) : k \in 1..Len(first)})

\* two of the first max_claims candidates differ only in case and a later
\* candidate with another text was cut off: fewer than max_claims remain
C30_Witness ==
    /\ e_pc = "done"
    /\ max_claims = 2
    /\ Len(candidates) = 3
    /\ Lower(candidates[1].claim) = Lower(candidates[2].claim)
    /\ Lower(candidates[3].claim) # Lower(candidates[1].claim)
    /\ Len(claims) = 1

-----------------------------------------------------------------------------
(* A further property of the verification loop, under SpecScore.           *)

\* C27: in every report the verification results correspond one to one with
\* the verified claims in the same order: the lists have the same length,
\* the i-th result's claim_id is the i-th claim's id, and every claim is
\* matched by exactly one result.
C27_ResultsMatchClaims ==
    /\ Len(verification_results) <= Len(g_claims)
    /\ \A i \in 1..Len(verification_results) :
          verification_results[i].claim_id = g_claims[i].id
    /\ g_pc = "done" =>
          /\ Len(verification_results) = Len(g_claims)
          /\ \A i \in 1..Len(g_claims) :
                Cardinality({j \in 1..Len(verification_results) :
                               verification_results[j].claim_id = g_claims[i].id}) = 1

\* a report over two claims, the first with the default result of an
\* unusable reply, the second with a parsed score
C27_Witness ==
    /\ g_pc = "done"
    /\ Len(g_claims) = 2
    /\ Len(verification_results) = 2
    /\ verification_results[1].score = 25
    /\ verification_results[2].score = 40
    /\ verification_results[2].claim_id = g_claims[2].id

-----------------------------------------------------------------------------
(* A further property of what WebSearchClient.search returns, under        *)
(* SpecSearch.                                                             *)

\* C28: the list a search call returns consists of the items of exactly one
\* successful attempt's response, each once and in response order; items
\* converted during an attempt that then failed are never part of it.
C28_OneResponseOnly ==
    s_pc = "returned" =>
        \/ ret = <<>>
        \/ \E payload \in Payloads : ~ConversionFails(payload) /\ ret = Converted(payload)

-----------------------------------------------------------------------------
(* A further property of the url branch of load_content, under SpecLoad.   *)

\* C29: in one load_content call for a URL, strategy A is attempted exactly
\* once and first, strategy B at most once, and B is not attempted at all
\* when A returned a non-empty body that matches no block signature.
C29_AOnceThenMaybeB ==
    /\ a_calls <= 1
    /\ b_calls <= 1
    /\ b_calls > 0 => a_calls = 1
    /\ (LowerType(source_type) = "url"
          /\ l_pc \in {"check_a", "selenium", "check_final", "extract", "done", "raised"})
         => a_calls = 1
    /\ (a_calls = 1 /\ ~Falsy(a_result) /\ ~MatchesBlockSignature(a_result))
         => (b_calls = 0 /\ l_pc # "selenium")

\* A returned a page that only nearly matches a block phrase: the text was
\* returned without strategy B
C29_Witness ==
    /\ l_pc = "done"
    /\ a_calls = 1
    /\ a_result = BodyNearMiss
    /\ b_calls = 0

-----------------------------------------------------------------------------
(* A further property of the results of verify_claim, under SpecVerify.    *)

\* C24: every result, whether built from a parsed reply or from the failure
\* default, has a score within [0, 5] and a confidence within [0, 1], both
\* populated.
C24_ScoreAndConfidenceInRange ==
    v_result.returned =>
        /\ v_result.score # "NaN"
        /\ Tenths(v_result.score) >= 0
        /\ Tenths(v_result.score) <= 50
        /\ v_result.confidence # "NaN"
        /\ Tenths(v_result.confidence) >= 0
        /\ Tenths(v_result.confidence) <= 10

-----------------------------------------------------------------------------
(* A property of the search loop of verify_claim, under SpecQueries.       *)

\* C23: for one claim verify_claim issues at most 5 search queries, runs the
\* search client exactly once per query in the order of the oracle's reply
\* lines, and a search that fails for one query does not prevent the searches
\* for the remaining queries.
C23_SearchOncePerQuery ==
    LET texts == {k \in 1..Len(q_reply) : q_reply[k] = "text"}
        wanted == IF Cardinality(texts) < 5 THEN Cardinality(texts) ELSE 5
    IN /\ Len(q_calls) <= 5
       /\ \A i \in 1..Len(q_calls) :
             /\ q_calls[i].query \in texts
             /\ Cardinality({k \in texts : k <= q_calls[i].query}) = i
       /\ q_pc = "analyze" => Len(q_calls) = wanted

\* the reply had six query lines; five were searched although the first
\* search failed
C23_Witness ==
    /\ q_pc = "analyze"
    /\ Len(q_reply) = 6
    /\ \A k \in 1..6 : q_reply[k] = "text"
    /\ Len(q_calls) = 5
    /\ q_calls[1].failed
    /\ ~q_calls[5].failed

====
